---------------------------- MODULE Spec2Model ----------------------------
(***************************************************************************)
(* Model of the Jac walker manager (backend/jac_layer/jac_manager.py):     *)
(* the walker registry, the four-strategy loading chain run by the         *)
(* constructor, the module cache, and the operations offered on it         *)
(* (get_walker_module, execute_walker, get_available_walkers,              *)
(* reload_walkers, health_check).                                          *)
(*                                                                         *)
(* Errors are Python exceptions.  The model distinguishes ImportError      *)
(* from every other subclass of Exception, because the except clauses of   *)
(* the loading chain do.  Exceptions outside Exception (SystemExit,        *)
(* KeyboardInterrupt) are not part of the modelled environment.            *)
(***************************************************************************)
EXTENDS Integers, Sequences, FiniteSets, TLC

(***************************************************************************)
(* Bounds of the model.                                                    *)
(***************************************************************************)
\* Walkers 1..NumFlaky of the registry may fail or load in any way; the
\* others import at strategy 1 and expose their default function.
NumFlaky == 1
\* The same for SpecResolve, the constructor on its own.
NumFlakyResolve == 2
\* Concurrent callers of get_walker_module in SpecConc.
NumCallers == 2

(***************************************************************************)
(* Static tables of the program.                                           *)
(***************************************************************************)
\* The keys of walker_map in insertion (= iteration) order.
WalkerOrder ==
  << "orchestrator", "content_curator", "quiz_master",
     "evaluator", "progress_tracker", "motivator" >>

\* A name that is not a key of walker_map, as an input of the operations.
UnregisteredNames == {"ghost_walker"}

\* fallback_methods of strategy 4.
fallback_methods ==
  [ orchestrator |-> <<"init_user_graph", "start_lesson_sequence", "coordinate_learning_workflow">>,
    content_curator |-> <<"get_lesson_content", "create_learning_material", "adapt_content_difficulty">>,
    quiz_master |-> <<"generate_adaptive_quiz", "create_question_set", "evaluate_quiz_performance">>,
    evaluator |-> <<"evaluate_code_response", "evaluate_text_response", "provide_feedback">>,
    progress_tracker |-> <<"track_lesson_progress", "update_mastery_scores", "get_learning_analytics">>,
    motivator |-> <<"generate_motivational_message", "create_encouragement", "track_achievements">> ]

\* walker_methods = fallback_methods.get(name, ['execute'])
walker_methods(n) ==
  IF n \in DOMAIN fallback_methods THEN fallback_methods[n] ELSE <<"execute">>

\* Faulty variant: the default of one walker is a name its stub does not have.
function_mapping_Renamed ==
  [ orchestrator |-> "execute",
    content_curator |-> "get_lesson_content",
    quiz_master |-> "generate_adaptive_quiz",
    evaluator |-> "evaluate_code_response",
    progress_tracker |-> "track_lesson_progress",
    motivator |-> "generate_motivational_message" ]

\* function_mapping of execute_walker.
function_mapping ==
  [ orchestrator |-> "init_user_graph",
    content_curator |-> "get_lesson_content",
    quiz_master |-> "generate_adaptive_quiz",
    evaluator |-> "evaluate_code_response",
    progress_tracker |-> "track_lesson_progress",
    motivator |-> "generate_motivational_message" ]

\* f"{walker_name}_execute", for the walker names the model uses.
ExecuteName(n) ==
  CASE n = "ghost_walker" -> "ghost_walker_execute"
    [] n = "orchestrator" -> "orchestrator_execute"
    [] n = "content_curator" -> "content_curator_execute"
    [] n = "quiz_master" -> "quiz_master_execute"
    [] n = "evaluator" -> "evaluator_execute"
    [] n = "progress_tracker" -> "progress_tracker_execute"
    [] n = "motivator" -> "motivator_execute"

\* function_mapping.get(walker_name, f"{walker_name}_execute")
DefaultFunction(n) ==
  IF n \in DOMAIN function_mapping THEN function_mapping[n] ELSE ExecuteName(n)

\* Every attribute name of the model in the order sorted() / dir() gives
\* (code point order).
SortedNames ==
  << "MAX_SCORE", "__builtins__", "_private_helper",
     "adapt_content_difficulty", "coordinate_learning_workflow",
     "create_encouragement", "create_learning_material", "create_question_set",
     "evaluate_code_response", "evaluate_quiz_performance", "evaluate_text_response",
     "execute", "generate_adaptive_quiz", "generate_motivational_message",
     "get_learning_analytics", "get_lesson_content", "init_user_graph",
     "provide_feedback", "start_lesson_sequence", "track_achievements",
     "track_lesson_progress", "update_mastery_scores" >>

\* key.startswith('_')
StartsWithUnderscore(key) == key \in {"__builtins__", "_private_helper"}

RankOf(a) == CHOOSE i \in 1..Len(SortedNames) : SortedNames[i] = a

\* The names the walker sources define, in the order of their definitions:
\* the order in which exec() inserts them into the namespace and in which
\* namespace.items() yields them.  exec() inserts __builtins__ first.
DefinitionOrder ==
  << "__builtins__",
     "init_user_graph", "start_lesson_sequence", "coordinate_learning_workflow",
     "get_lesson_content", "create_learning_material", "adapt_content_difficulty",
     "generate_adaptive_quiz", "create_question_set", "evaluate_quiz_performance",
     "evaluate_code_response", "evaluate_text_response", "provide_feedback",
     "track_lesson_progress", "update_mastery_scores", "get_learning_analytics",
     "generate_motivational_message", "create_encouragement", "track_achievements",
     "execute", "_private_helper", "MAX_SCORE" >>

PositionOf(a) == CHOOSE i \in 1..Len(DefinitionOrder) : DefinitionOrder[i] = a

\* Faulty variant: the first name in definition order.
FirstOf_Discovered(ops) == CHOOSE a \in ops : \A b \in ops : PositionOf(a) <= PositionOf(b)

\* Faulty variant: the last name of the listing instead of the first.
FirstOf_Last(ops) == CHOOSE a \in ops : \A b \in ops : RankOf(a) >= RankOf(b)

\* [attr for attr in dir(module) if callable(...) and not attr.startswith('_')][0]
FirstOf(ops) == CHOOSE a \in ops : \A b \in ops : RankOf(a) <= RankOf(b)

(***************************************************************************)
(* Values.                                                                 *)
(***************************************************************************)
\* The absent module: what self.modules.get(name) gives for a missing key.
NoModule == [id |-> 0, kind |-> "none", ops |-> {}]

\* A loaded module object: its identity, the strategy that made it and the
\* public callables it exposes.
Handle(i, k, o) == [id |-> i, kind |-> k, ops |-> o]

NoException == [cls |-> "none", msg |-> << >>]
Exc(c, m) == [cls |-> c, msg |-> m]

\* str(e) of an exception raised with one message argument.
StrOf(e) == e.msg

\* parameters: None, or a dict of keyword arguments (a set of pairs).
ParamInputs ==
  { [none |-> TRUE, kw |-> {}],
    [none |-> FALSE, kw |-> {}],
    [none |-> FALSE, kw |-> {<<"x", 1>>}] }

\* if parameters is None: parameters = {}
NormalizeParameters(p) == IF p.none THEN [none |-> FALSE, kw |-> {}] ELSE p

VARIABLES
  walker_map,    \* the registry: the sequence of registered names
  modules,       \* self.modules: name -> handle, for the names that are loaded
  sys_path,      \* TRUE when the walkers directory is in sys.path
  pc,            \* constructor: "s1".."s4" (strategy to try), "done", "crashed"
  idx,           \* constructor: position of the loop in walker_map
  name,          \* loop variable of _initialize_walkers (a closure cell)
  method_name,   \* loop variable of strategy 4 (a closure cell)
  obj_count,     \* number of module objects created so far
  attempts,      \* history: per name, the strategies tried and their results
  runs,          \* history: per name, how often the loading chain was started
  path_inserts,  \* history: number of sys.path.insert calls
  last,          \* the last call of an operation and its outcome
  pinned,        \* history: a get_walker_module result since the last reload,
                 \* and whether the same name was asked for again
  cpc,           \* SpecConc: per caller, "idle", "read", "returned"
  creq,          \* SpecConc: per caller, the requested name
  clocal,        \* SpecConc: per caller, the local variable module
  cres,          \* SpecConc: per caller, the outcome of the call
  became,        \* environment: the stubbed names whose real implementation
                 \* became importable after the constructor ran
  flaky          \* environment: walkers 1..flaky of the registry may fail to
                 \* import or load in any way

vars ==
  << walker_map, modules, sys_path, pc, idx, name, method_name, obj_count,
     attempts, runs, path_inserts, last, pinned, cpc, creq, clocal, cres,
     became, flaky >>

ctorVars ==
  << modules, sys_path, pc, idx, name, method_name, obj_count,
     attempts, runs, path_inserts >>

callerVars == << cpc, creq, clocal, cres >>

Registered == {walker_map[i] : i \in 1..Len(walker_map)}
AllNames == {WalkerOrder[i] : i \in 1..Len(WalkerOrder)} \cup UnregisteredNames
Callers == 1..NumCallers

NoCall ==
  [ op |-> "none", arg |-> "", params |-> [none |-> TRUE, kw |-> {}],
    raised |-> FALSE, exc |-> NoException, handle |-> NoModule,
    envelope |-> [status |-> "none"], flag |-> FALSE, called |-> << >>,
    did |-> [raises |-> FALSE, value |-> [tag |-> "none"], exc |-> NoException],
    listing |-> {}, hint |-> "none", phases |-> << >>, seen |-> {} ]

NoPin == [name |-> "", id |-> 0, again |-> FALSE]

InitState(k) ==
  /\ walker_map = WalkerOrder
  /\ modules = << >>
  /\ sys_path = FALSE
  /\ pc = "s1"
  /\ idx = 1
  /\ name = ""
  /\ method_name = ""
  /\ obj_count = 0
  /\ attempts = [n \in AllNames |-> << >>]
  /\ runs = [n \in AllNames |-> 0]
  /\ path_inserts = 0
  /\ last = NoCall
  /\ pinned = NoPin
  /\ cpc = [c \in Callers |-> "idle"]
  /\ creq = [c \in Callers |-> ""]
  /\ clocal = [c \in Callers |-> NoModule]
  /\ cres = [c \in Callers |-> [raised |-> FALSE, handle |-> NoModule]]
  /\ became = {}
  /\ flaky = k

\* The state after `self.modules = {}` and the assignment of walker_map.
Init == InitState(NumFlaky)


(***************************************************************************)
(* The environment of the loading chain: what an import or the execution   *)
(* of a walker source file can produce.                                    *)
(***************************************************************************)
\* The sets of public callables a walker module may define, for walker n.
ModuleOps(n) ==
  LET m == walker_methods(n) IN
  { {}, {m[1]}, {m[2], m[3]}, {m[1], m[3]} }

\* importlib.import_module: a module, an ImportError, or another Exception
\* (a SyntaxError or a compiler error raised while the module is executed).
ImportResults(i) ==
  IF i <= flaky
  THEN { [r |-> "ok", ops |-> o] : o \in ModuleOps(walker_map[i]) }
         \cup { [r |-> "ImportError", ops |-> {}], [r |-> "Exception", ops |-> {}] }
  ELSE { [r |-> "ok", ops |-> {DefaultFunction(walker_map[i])}] }

\* One entry of the namespace that exec() fills.
Entry(k, c) == [key |-> k, callable |-> c]

\* The namespaces exec(jac_code, namespace) may leave behind; exec always
\* adds __builtins__.
Namespaces(n) ==
  LET m == walker_methods(n)
      b == Entry("__builtins__", FALSE)
  IN { {b},
       {b, Entry(m[1], TRUE)},
       {b, Entry(m[1], TRUE), Entry("_private_helper", TRUE), Entry("MAX_SCORE", FALSE)},
       {b, Entry(m[2], TRUE), Entry(m[3], TRUE)} }

\* Strategy 3: the file is missing (the code raises ImportError itself), or
\* reading or executing it raises, or exec() fills a namespace.
SourceResults(n) ==
  { [r |-> "ok", ns |-> s] : s \in Namespaces(n) }
    \cup { [r |-> "ImportError", ns |-> {}], [r |-> "Exception", ns |-> {}] }

\* Faulty variant: every callable of the namespace is set on the handle.
WalkerModuleOps_AllCallables(ns) ==
  { e.key : e \in { x \in ns : x.callable } }

\* for key, value in namespace.items():
\*     if not key.startswith('_') and callable(value): setattr(module, key, value)
WalkerModuleOps(ns) ==
  { e.key : e \in { x \in ns : ~StartsWithUnderscore(x.key) /\ x.callable } }

\* self.modules[name] = module
Put(m, k, v) == [x \in DOMAIN m \cup {k} |-> IF x = k THEN v ELSE m[x]]

(***************************************************************************)
(* The try/except structure of _initialize_walkers: where control goes     *)
(* after a strategy ended with result r ("ok", "ImportError" or            *)
(* "Exception").  "advance" is the next iteration of the for loop.         *)
(***************************************************************************)
\* Faulty variant: strategy 2 is tried whatever strategy 1 did.
AfterStrategy1_Always2(r) == "s2"

\* Faulty variant: no outer except clause, an unexpected error leaves the constructor.
AfterStrategy1_NoOuterExcept(r) ==
  CASE r = "ok" -> "advance"
    [] r = "ImportError" -> "s2"
    [] OTHER -> "crashed"

\* try: strategy 1; except ImportError: ...; outer except Exception: log
AfterStrategy1(r) ==
  CASE r = "ok" -> "advance"
    [] r = "ImportError" -> "s2"
    [] OTHER -> "advance"

\* try: strategy 2; except ImportError: ...; anything else reaches the
\* outer except Exception, which logs
AfterStrategy2(r) ==
  CASE r = "ok" -> "advance"
    [] r = "ImportError" -> "s3"
    [] OTHER -> "advance"

\* Faulty variant: strategy 3 is guarded by `except ImportError` like the others.
AfterStrategy3_ImportErrorOnly(r) ==
  CASE r = "ok" -> "advance"
    [] r = "ImportError" -> "s4"
    [] OTHER -> "advance"

\* try: strategy 3; except Exception: strategy 4
AfterStrategy3(r) ==
  CASE r = "ok" -> "advance"
    [] OTHER -> "s4"

\* The constructor's position after a strategy: target t of the handlers.
Goto(t) ==
  IF t = "advance"
  THEN /\ idx' = idx + 1
       /\ pc' = IF idx + 1 > Len(walker_map) THEN "done" ELSE "s1"
  ELSE /\ idx' = idx
       /\ pc' = t

\* ns is the namespace exec() filled, for strategy 3 (empty otherwise).
Record(n, k, r, ns) ==
  attempts' = [attempts EXCEPT ![n] = Append(@, [strategy |-> k, result |-> r, ns |-> ns])]

\* On success the strategy caches a new module object.
Cache(n, r, kind, ops) ==
  IF r = "ok"
  THEN /\ modules' = Put(modules, n, Handle(obj_count + 1, kind, ops))
       /\ obj_count' = obj_count + 1
  ELSE UNCHANGED << modules, obj_count >>

\* Strategy 1: importlib.import_module(module_path).
Strategy1 ==
  /\ pc = "s1"
  /\ LET n == walker_map[idx] IN
     \E res \in ImportResults(idx) :
       /\ name' = n
       /\ runs' = [runs EXCEPT ![n] = @ + 1]
       /\ Record(n, 1, res.r, {})
       /\ Cache(n, res.r, "import", res.ops)
       /\ Goto(AfterStrategy1(res.r))
  /\ UNCHANGED << walker_map, flaky, sys_path, method_name, path_inserts, last, pinned, callerVars, became >>

\* Faulty variant: the directory is inserted without looking.
WalkerDirMissing_Always(path) == TRUE

\* if walker_dir not in sys.path
WalkerDirMissing(path) == ~path

\* Strategy 2: put the walkers directory on sys.path, import by bare name.
Strategy2 ==
  /\ pc = "s2"
  /\ sys_path' = TRUE
  /\ path_inserts' = IF WalkerDirMissing(sys_path) THEN path_inserts + 1 ELSE path_inserts
  /\ \E res \in ImportResults(idx) :
       /\ Record(name, 2, res.r, {})
       /\ Cache(name, res.r, "path_import", res.ops)
       /\ Goto(AfterStrategy2(res.r))
  /\ UNCHANGED << walker_map, flaky, name, method_name, runs, last, pinned, callerVars, became >>

\* Strategy 3: read the .jac file and exec() it.
Strategy3 ==
  /\ pc = "s3"
  /\ \E res \in SourceResults(name) :
       /\ Record(name, 3, res.r, res.ns)
       /\ Cache(name, res.r, "source", WalkerModuleOps(res.ns))
       /\ Goto(AfterStrategy3(res.r))
  /\ UNCHANGED << walker_map, flaky, sys_path, name, method_name, runs, path_inserts,
                  last, pinned, callerVars, became >>

\* Strategy 4: a DummyWalkerModule with one fallback_method per name of
\* walker_methods; the loop leaves method_name at the last of them.
Strategy4 ==
  /\ pc = "s4"
  /\ LET wm == walker_methods(name) IN
       /\ method_name' = wm[Len(wm)]
       /\ Cache(name, "ok", "stub", {wm[i] : i \in 1..Len(wm)})
  /\ Record(name, 4, "ok", {})
  /\ Goto("advance")
  /\ UNCHANGED << walker_map, flaky, sys_path, name, runs, path_inserts, last, pinned, callerVars, became >>

\* JacManager.__init__ : the whole of _initialize_walkers, strategy by strategy.
Construct == Strategy1 \/ Strategy2 \/ Strategy3 \/ Strategy4

\* The module-level instance exists before any caller can reach it.
Constructed == pc = "done"

(***************************************************************************)
(* get_walker_module.                                                      *)
(***************************************************************************)
\* module = self.modules.get(module_name)
ModulesGet(mods, n) == IF n \in DOMAIN mods THEN mods[n] ELSE NoModule

\* if not module: raise ValueError(...)   /   return module
CheckModule(module, n) ==
  IF module = NoModule
  THEN [raised |-> TRUE, exc |-> Exc("ValueError", <<"Module ", n, " is not loaded.">>),
        handle |-> NoModule]
  ELSE [raised |-> FALSE, exc |-> NoException, handle |-> module]

\* Faulty variant: a missing name gets an empty entry (a defaultdict cache).
get_walker_module_Autocreate(mods, n) ==
  LET r == CheckModule(ModulesGet(mods, n), n) IN
  [ raised |-> r.raised, exc |-> r.exc, handle |-> r.handle,
    modules |-> IF n \in DOMAIN mods THEN mods ELSE Put(mods, n, Handle(0, "stub", {})),
    resolved |-> {} ]

\* Faulty variant: self.modules.pop(module_name, None) instead of get.
get_walker_module_Pop(mods, n) ==
  LET r == CheckModule(ModulesGet(mods, n), n) IN
  [ raised |-> r.raised, exc |-> r.exc, handle |-> r.handle,
    modules |-> [x \in DOMAIN mods \ {n} |-> mods[x]], resolved |-> {} ]

\* Faulty variant: a registered name without a handle is resolved on request.
get_walker_module_Lazy(mods, n) ==
  IF n \in Registered /\ n \notin DOMAIN mods
  THEN [ raised |-> FALSE, exc |-> NoException, handle |-> Handle(0, "stub", {}),
         modules |-> Put(mods, n, Handle(0, "stub", {})), resolved |-> {n} ]
  ELSE LET r == CheckModule(ModulesGet(mods, n), n) IN
       [ raised |-> r.raised, exc |-> r.exc, handle |-> r.handle,
         modules |-> mods, resolved |-> {} ]

\* The outcome of get_walker_module(n) on cache mods, with what the call
\* leaves in the cache and the names it ran the loading chain for (none).
get_walker_module(mods, n) ==
  LET r == CheckModule(ModulesGet(mods, n), n) IN
  [ raised |-> r.raised, exc |-> r.exc, handle |-> r.handle,
    modules |-> mods, resolved |-> {} ]

(***************************************************************************)
(* execute_walker.                                                         *)
(***************************************************************************)
\* What a function of a real walker module does when called: it returns a
\* value or raises an exception.
Behaviours ==
  { [raises |-> FALSE, value |-> [tag |-> "value", v |-> "r1"], exc |-> NoException],
    [raises |-> TRUE, value |-> [tag |-> "none"], exc |-> Exc("ValueError", <<"boom">>)] }

\* Faulty variant: the parameters are not echoed.
fallback_method_NoEcho(kwargs, nm, mn) ==
  [ status |-> "fallback", walker |-> nm, method |-> mn,
    message |-> <<"Walker ", nm, " is running in fallback mode">>,
    parameters |-> {}, timestamp |-> "2025-12-04T17:47:44Z" ]

\* fallback_method(**kwargs): the closure reads name and method_name of
\* _initialize_walkers when it is called.
fallback_method(kwargs, nm, mn) ==
  [ status |-> "fallback", walker |-> nm, method |-> mn,
    message |-> <<"Walker ", nm, " is running in fallback mode">>,
    parameters |-> kwargs, timestamp |-> "2025-12-04T17:47:44Z" ]

\* walker_function(**parameters)
CallFunction(module, fn, kwargs, b, nm, mn) ==
  IF module.kind = "stub"
  THEN [raises |-> FALSE, value |-> fallback_method(kwargs, nm, mn), exc |-> NoException]
  ELSE b

\* Faulty variant: function_called reports the mapped name, not the function used.
SuccessEnvelope_Mapped(data, n, fn) ==
  [ status |-> "success", data |-> data, walker_name |-> n,
    function_called |-> DefaultFunction(n) ]

\* The dict returned on success.
SuccessEnvelope(data, n, fn) ==
  [ status |-> "success", data |-> data, walker_name |-> n, function_called |-> fn ]

\* Faulty variant: a fixed message instead of str(e).
ErrorEnvelope_FixedMessage(e, n) ==
  [ status |-> "error", message |-> <<"Walker execution failed">>, walker_name |-> n ]

\* The dict returned by the except clause.
ErrorEnvelope(e, n) ==
  [ status |-> "error", message |-> StrOf(e), walker_name |-> n ]

\* Nothing was called.
NotCalled == [raises |-> FALSE, value |-> [tag |-> "none"], exc |-> NoException]

\* The body of the try block: the envelope it returns or the exception it
\* raises, the functions it called and what the called function did.
ExecuteBody(mods, n, kwargs, b, nm, mn) ==
  IF n \notin DOMAIN mods
  THEN [ raised |-> TRUE, called |-> << >>, did |-> NotCalled, ret |-> [status |-> "none"],
         phases |-> <<"resolving">>,
         exc |-> Exc("ValueError", <<"Walker module '", n, "' is not loaded.">>) ]
  ELSE LET module == mods[n]
           mapped == DefaultFunction(n)
       IN IF mapped \notin module.ops /\ module.ops = {}
          THEN [ raised |-> TRUE, called |-> << >>, did |-> NotCalled, ret |-> [status |-> "none"],
                 phases |-> <<"resolving", "selecting">>,
                 exc |-> Exc("ValueError", <<"No callable functions found in module '", n, "'">>) ]
          ELSE LET function_name ==
                     IF mapped \in module.ops THEN mapped ELSE FirstOf(module.ops)
                   res == CallFunction(module, function_name, kwargs, b, nm, mn)
               IN IF res.raises
                  THEN [ raised |-> TRUE, called |-> <<function_name>>, did |-> res,
                         phases |-> <<"resolving", "selecting", "invoking">>,
                         ret |-> [status |-> "none"], exc |-> res.exc ]
                  ELSE [ raised |-> FALSE, called |-> <<function_name>>, did |-> res,
                         phases |-> <<"resolving", "selecting", "invoking">>,
                         ret |-> SuccessEnvelope(res.value, n, function_name),
                         exc |-> NoException ]

\* Faulty variant: no except clause, the exception reaches the caller.
execute_walker_Reraise(mods, n, p, b, nm, mn) ==
  LET r == ExecuteBody(mods, n, NormalizeParameters(p).kw, b, nm, mn) IN
  [ raised |-> r.raised, exc |-> r.exc, ret |-> r.ret,
    called |-> r.called, did |-> r.did, phases |-> r.phases, modules |-> mods ]

\* Faulty variant: a function that raised is called a second time.
execute_walker_Retry(mods, n, p, b, nm, mn) ==
  LET r == ExecuteBody(mods, n, NormalizeParameters(p).kw, b, nm, mn)
      again == r.raised /\ r.called # << >>
  IN [ raised |-> FALSE, exc |-> NoException,
       ret |-> IF r.raised THEN ErrorEnvelope(r.exc, n) ELSE r.ret,
       called |-> IF again THEN r.called \o r.called ELSE r.called,
       did |-> r.did,
       phases |-> IF again THEN Append(r.phases, "invoking") ELSE r.phases,
       modules |-> mods ]

\* Faulty variant: a stub whose implementation has appeared is replaced by
\* a fresh import on the next call.
execute_walker_Reimport(mods, n, p, b, nm, mn) ==
  LET r == ExecuteBody(mods, n, NormalizeParameters(p).kw, b, nm, mn) IN
  [ raised |-> FALSE, exc |-> NoException,
    ret |-> IF r.raised THEN ErrorEnvelope(r.exc, n) ELSE r.ret,
    called |-> r.called, did |-> r.did, phases |-> r.phases,
    modules |-> IF n \in became /\ n \in DOMAIN mods
                THEN Put(mods, n, Handle(mods[n].id + 100, "import", {DefaultFunction(n)}))
                ELSE mods ]

\* Faulty variant: the function that was called is set on the handle under
\* a second name.
execute_walker_Setattr(mods, n, p, b, nm, mn) ==
  LET r == ExecuteBody(mods, n, NormalizeParameters(p).kw, b, nm, mn) IN
  [ raised |-> FALSE, exc |-> NoException,
    ret |-> IF r.raised THEN ErrorEnvelope(r.exc, n) ELSE r.ret,
    called |-> r.called, did |-> r.did, phases |-> r.phases,
    modules |-> IF r.called # << >>
                THEN Put(mods, n, [mods[n] EXCEPT !.ops = @ \cup {"execute"}])
                ELSE mods ]

\* Faulty variant: a name that is not loaded gets an empty cache entry.
execute_walker_Autocreate(mods, n, p, b, nm, mn) ==
  LET r == ExecuteBody(mods, n, NormalizeParameters(p).kw, b, nm, mn) IN
  [ raised |-> FALSE, exc |-> NoException,
    ret |-> IF r.raised THEN ErrorEnvelope(r.exc, n) ELSE r.ret,
    called |-> r.called, did |-> r.did, phases |-> r.phases,
    modules |-> IF n \in DOMAIN mods THEN mods ELSE Put(mods, n, Handle(0, "stub", {})) ]

\* try: body; except Exception as e: return the error dict.  The outcome of
\* execute_walker(n, p), with what the call leaves in the cache.
execute_walker(mods, n, p, b, nm, mn) ==
  LET r == ExecuteBody(mods, n, NormalizeParameters(p).kw, b, nm, mn) IN
  [ raised |-> FALSE, exc |-> NoException,
    ret |-> IF r.raised THEN ErrorEnvelope(r.exc, n) ELSE r.ret,
    called |-> r.called, did |-> r.did, phases |-> r.phases, modules |-> mods ]

(***************************************************************************)
(* get_available_walkers, health_check, reload_walkers.                    *)
(***************************************************************************)
\* Faulty variant: fallback stubs are left out of the listing.
get_available_walkers_RealOnly(mods) ==
  { n \in DOMAIN mods : mods[n].kind # "stub" }

\* {name: {'loaded': True} for name in self.modules.keys()}
get_available_walkers(mods) == DOMAIN mods

\* Faulty variant: healthy only when every registered walker is loaded.
health_check_AllLoaded(mods) == Cardinality(DOMAIN mods) = Len(walker_map)

\* loaded_count > 0
health_check(mods) == Cardinality(DOMAIN mods) > 0

\* self.modules.items(): the loaded names in insertion order, which is the
\* order of the constructor's loop.
ModuleItems(mods, order) == SelectSeq(order, LAMBDA n : n \in DOMAIN mods)

\* importlib.reload(module) raises TypeError unless module is a real module.
IsRealModule(h) == h.kind \in {"import", "path_import"}

\* Faulty variant: one try per module, the loop goes on after a failure.
reload_walkers_Continue(mods, order, failing) ==
  LET items == ModuleItems(mods, order)
      bad == { i \in 1..Len(items) : ~IsRealModule(mods[items[i]]) \/ items[i] = failing }
  IN [ flag |-> bad = {}, reloaded |-> {items[i] : i \in (1..Len(items)) \ bad},
       modules |-> mods ]

\* reload_walkers: the modules are reloaded in order up to the first one
\* whose reload raises (a handle that is no module, or the module named
\* failing, whose code raises when executed again); the cache is not written.
reload_walkers(mods, order, failing) ==
  LET items == ModuleItems(mods, order)
      bad == { i \in 1..Len(items) : ~IsRealModule(mods[items[i]]) \/ items[i] = failing }
      stop == IF bad = {} THEN Len(items) + 1
              ELSE CHOOSE i \in bad : \A j \in bad : i <= j
  IN [ flag |-> bad = {}, reloaded |-> {items[i] : i \in 1..(stop - 1)},
       modules |-> mods ]

(***************************************************************************)
(* The operations as actions, called one at a time on the constructed      *)
(* manager.                                                                *)
(***************************************************************************)
Count(n, names) ==
  [runs EXCEPT ![n] = IF n \in names THEN @ + 1 ELSE @]

GetWalkerModule(n) ==
  /\ Constructed
  /\ LET r == get_walker_module(modules, n) IN
       /\ last' = [NoCall EXCEPT !.op = "get_walker_module", !.arg = n,
                                 !.raised = r.raised, !.exc = r.exc, !.handle = r.handle,
                                 !.seen = became]
       /\ modules' = r.modules
       /\ runs' = Count(n, r.resolved)
       /\ \/ /\ pinned.name # n
             /\ pinned' = pinned
          \/ /\ pinned.name = n
             /\ pinned' = [pinned EXCEPT !.again = TRUE]
          \/ /\ pinned = NoPin
             /\ ~r.raised
             /\ pinned' = [name |-> n, id |-> r.handle.id, again |-> FALSE]
  /\ UNCHANGED << walker_map, flaky, sys_path, pc, idx, name, method_name, obj_count,
                  attempts, path_inserts, callerVars, became >>

ExecuteWalker(n, p, b) ==
  /\ Constructed
  /\ LET r == execute_walker(modules, n, p, b, name, method_name) IN
       /\ last' = [NoCall EXCEPT !.op = "execute_walker", !.arg = n, !.params = p,
                                 !.raised = r.raised, !.exc = r.exc,
                                 !.envelope = r.ret, !.called = r.called,
                                 !.did = r.did, !.phases = r.phases]
       /\ modules' = r.modules
  /\ UNCHANGED << walker_map, flaky, sys_path, pc, idx, name, method_name, obj_count,
                  attempts, runs, path_inserts, pinned, callerVars, became >>

\* The spec's invoke(name, operation_hint, parameters) on this code:
\* execute_walker(walker_name, parameters) has no parameter for a hint, so
\* the hint the caller has in mind does not reach the call.
ExecuteWalkerHinted(n, h, p, b) ==
  /\ Constructed
  /\ LET r == execute_walker(modules, n, p, b, name, method_name) IN
       /\ last' = [NoCall EXCEPT !.op = "execute_walker", !.arg = n, !.params = p,
                                 !.raised = r.raised, !.exc = r.exc,
                                 !.envelope = r.ret, !.called = r.called,
                                 !.did = r.did, !.phases = r.phases, !.hint = h]
       /\ modules' = r.modules
  /\ UNCHANGED << walker_map, flaky, sys_path, pc, idx, name, method_name, obj_count,
                  attempts, runs, path_inserts, pinned, callerVars, became >>

GetAvailableWalkers ==
  /\ Constructed
  /\ last' = [NoCall EXCEPT !.op = "get_available_walkers",
                            !.listing = get_available_walkers(modules)]
  /\ UNCHANGED << walker_map, flaky, ctorVars, pinned, callerVars, became >>

HealthCheck ==
  /\ Constructed
  /\ last' = [NoCall EXCEPT !.op = "health_check", !.flag = health_check(modules)]
  /\ UNCHANGED << walker_map, flaky, ctorVars, pinned, callerVars, became >>

ReloadWalkers(failing) ==
  /\ Constructed
  /\ LET r == reload_walkers(modules, walker_map, failing) IN
       /\ last' = [NoCall EXCEPT !.op = "reload_walkers", !.arg = failing,
                                 !.flag = r.flag, !.listing = r.reloaded,
                                 !.seen = became]
       /\ modules' = r.modules
  /\ pinned' = NoPin
  /\ UNCHANGED << walker_map, flaky, sys_path, pc, idx, name, method_name, obj_count,
                  attempts, runs, path_inserts, callerVars, became >>

\* What lines 14-15 of ready() can do: the import of jac_manager and the
\* health_check call return, or the import raises.
ReadyOutcomes == {"ok", "ImportError", "Exception"}

\* except Exception as e: pass
ReadyEscapes(e) == FALSE

\* JacLayerConfig.ready(): the startup hook.  It returns None; the value of
\* health_check is dropped.
Ready(e) ==
  /\ Constructed
  /\ last' = [NoCall EXCEPT !.op = "ready", !.arg = e,
                            !.raised = ReadyEscapes(e),
                            !.called = IF e = "ok" THEN <<"health_check">> ELSE << >>,
                            !.flag = IF e = "ok" THEN health_check(modules) ELSE FALSE]
  /\ UNCHANGED << walker_map, flaky, ctorVars, pinned, callerVars, became >>

\* The environment: the real implementation of a stubbed walker becomes
\* importable (or its .jac file appears) while the manager lives.
BecomesAvailable(n) ==
  /\ Constructed
  /\ n \in DOMAIN modules
  /\ modules[n].kind = "stub"
  /\ n \notin became
  /\ became' = became \cup {n}
  /\ UNCHANGED << walker_map, flaky, ctorVars, last, pinned, callerVars >>

\* The names callers ask for: every walker that may fail, the first of the
\* walkers that always import (the others behave like it), and the
\* unregistered names.
RequestNames ==
  {walker_map[i] : i \in {j \in 1..Len(walker_map) : j <= flaky + 1}} \cup UnregisteredNames

Next ==
  \/ Construct
  \/ \E n \in AllNames : BecomesAvailable(n)
  \/ \E n \in RequestNames : GetWalkerModule(n)
  \/ \E n \in RequestNames, p \in ParamInputs, b \in Behaviours : ExecuteWalker(n, p, b)
  \/ GetAvailableWalkers
  \/ HealthCheck
  \/ \E f \in AllNames : ReloadWalkers(f)

Spec == Init /\ [][Next]_vars

(***************************************************************************)
(* Concurrent callers of get_walker_module on the module-level instance:   *)
(* each caller reads the cache (one dict lookup), then tests and returns.  *)
(***************************************************************************)
\* Faulty variant: callers reach the instance while its constructor still runs.
CallerMayStart_Anytime == TRUE

\* jac_manager = JacManager() runs at import, before get_jac_manager can
\* hand the instance to a caller.
CallerMayStart == Constructed

CallerRead(c, n) ==
  /\ CallerMayStart
  /\ cpc[c] = "idle"
  /\ cpc' = [cpc EXCEPT ![c] = "read"]
  /\ creq' = [creq EXCEPT ![c] = n]
  /\ clocal' = [clocal EXCEPT ![c] = ModulesGet(modules, n)]
  /\ UNCHANGED << walker_map, flaky, ctorVars, last, pinned, cres, became >>

CallerReturn(c) ==
  /\ cpc[c] = "read"
  /\ LET r == CheckModule(clocal[c], creq[c]) IN
       cres' = [cres EXCEPT ![c] = [raised |-> r.raised, handle |-> r.handle]]
  /\ cpc' = [cpc EXCEPT ![c] = "returned"]
  /\ UNCHANGED << walker_map, flaky, ctorVars, last, pinned, creq, clocal, became >>

NextConc ==
  \/ Construct
  \/ \E c \in Callers, n \in AllNames : CallerRead(c, n)
  \/ \E c \in Callers : CallerReturn(c)

SpecConc == Init /\ [][NextConc]_vars

(***************************************************************************)
(* The dispatcher alone: the constructor, then execute_walker calls from   *)
(* callers that may have an operation in mind.                             *)
(***************************************************************************)
\* The operation a caller may want of walker n: none, or the third of the
\* names the walker is known for.
Hints(n) ==
  {"none"} \cup (IF n \in DOMAIN fallback_methods THEN {fallback_methods[n][3]} ELSE {})

NextDispatch ==
  \/ Construct
  \/ \E n \in AllNames, p \in ParamInputs, b \in Behaviours :
       \E h \in Hints(n) : ExecuteWalkerHinted(n, h, p, b)

SpecDispatch == Init /\ [][NextDispatch]_vars

(***************************************************************************)
(* The constructor alone, with more walkers that may fail.                 *)
(***************************************************************************)
InitResolve == InitState(NumFlakyResolve)

SpecResolve == InitResolve /\ [][Construct]_vars

(***************************************************************************)
(* Application startup: the manager as the constructor can leave it when   *)
(* each walker either imports at strategy 1 or raises an unexpected error  *)
(* there, then health_check and the ready() hook.                          *)
(***************************************************************************)
\* The position of name n in walker_map order among the names of S.
PlaceIn(S, n) ==
  Cardinality({ i \in 1..Len(WalkerOrder) :
                  WalkerOrder[i] \in S /\ i <= (CHOOSE j \in 1..Len(WalkerOrder) : WalkerOrder[j] = n) })

\* The cache when exactly the names of S imported at strategy 1.
ImportedCache(S) ==
  [n \in S |-> Handle(PlaceIn(S, n), "import", {DefaultFunction(n)})]

InitStartup ==
  \E S \in SUBSET {WalkerOrder[i] : i \in 1..Len(WalkerOrder)} :
    /\ walker_map = WalkerOrder
    /\ modules = ImportedCache(S)
    /\ sys_path = FALSE
    /\ pc = "done"
    /\ idx = Len(WalkerOrder) + 1
    /\ name = WalkerOrder[Len(WalkerOrder)]
    /\ method_name = ""
    /\ obj_count = Cardinality(S)
    /\ attempts = [n \in AllNames |->
                     IF n \in UnregisteredNames THEN << >>
                     ELSE <<[strategy |-> 1, ns |-> {},
                             result |-> IF n \in S THEN "ok" ELSE "Exception"]>>]
    /\ runs = [n \in AllNames |-> IF n \in UnregisteredNames THEN 0 ELSE 1]
    /\ path_inserts = 0
    /\ last = NoCall
    /\ pinned = NoPin
    /\ cpc = [c \in Callers |-> "idle"]
    /\ creq = [c \in Callers |-> ""]
    /\ clocal = [c \in Callers |-> NoModule]
    /\ cres = [c \in Callers |-> [raised |-> FALSE, handle |-> NoModule]]
    /\ became = {}
    /\ flaky = Len(WalkerOrder)

NextStartup ==
  \/ HealthCheck
  \/ \E e \in ReadyOutcomes : Ready(e)

SpecStartup == InitStartup /\ [][NextStartup]_vars

(***************************************************************************)
(* Properties.                                                             *)
(***************************************************************************)
IsGet == last.op = "get_walker_module"
IsExecute == last.op = "execute_walker"
Failed(n) == \E i \in 1..Len(attempts[n]) : attempts[n][i].result # "ok"

\* C1: once the manager is constructed, get_walker_module returns a non-null
\* handle and does not raise for every registered name, whatever failures
\* strategies 1-3 produced.
C1_RegisteredAlwaysHasHandle ==
  (IsGet /\ last.arg \in Registered) => (~last.raised /\ last.handle # NoModule)

\* C2: for every name the strategies are tried in the order 1, 2, 3, 4:
\* the k-th attempt is strategy k, and every attempt before the last one
\* failed (nothing is tried after a success).
C2_StrategyOrder ==
  \A n \in AllNames :
    /\ Len(attempts[n]) <= 4
    /\ \A i \in 1..Len(attempts[n]) :
         /\ attempts[n][i].strategy = i
         /\ (i < Len(attempts[n]) => attempts[n][i].result # "ok")

\* C2 witness: all four strategies were tried for some name.
C2_Witness ==
  pc = "done" /\ \E n \in Registered : Len(attempts[n]) = 4

\* C3: when strategy 1, 2 or 3 raised an error of any kind for a name, the
\* name still ends with a cached handle.
C3_AnyErrorFallsThrough ==
  pc = "done" => \A n \in Registered : Failed(n) => n \in DOMAIN modules

C5_BothRaise ==
  ((IsGet \/ IsExecute) /\ last.arg \notin Registered) => last.raised

\* C5 amended: for an unregistered name get_walker_module raises ValueError
\* and returns no handle; execute_walker does not raise, it returns the
\* error dict whose message says the walker module is not loaded and which
\* names the requested walker, and it calls no function.
C5_UnregisteredGetRaisesExecuteReports ==
  /\ (IsGet /\ last.arg \notin Registered) =>
       /\ last.raised
       /\ last.exc.cls = "ValueError"
       /\ last.handle = NoModule
  /\ (IsExecute /\ last.arg \notin Registered) =>
       /\ ~last.raised
       /\ last.called = << >>
       /\ last.envelope =
            [ status |-> "error", walker_name |-> last.arg,
              message |-> <<"Walker module '", last.arg, "' is not loaded.">> ]

\* C5 witness: execute_walker was called with an unregistered name.
C5_Witness ==
  IsExecute /\ last.arg \notin Registered /\ last.envelope.status = "error"

\* C6: a get_walker_module or execute_walker call with an unregistered name
\* leaves the cache exactly as it was.
C6_UnregisteredLeavesCache ==
  [][ ( /\ last' # last
        /\ last'.op \in {"get_walker_module", "execute_walker"}
        /\ last'.arg \notin Registered )
      => modules' = modules ]_vars

\* C6 witness: get_walker_module was called with an unregistered name.
C6_Witness ==
  IsGet /\ last.arg \notin Registered /\ last.raised

\* C7: a get_walker_module call for a name that an earlier call since the
\* last reload returned a handle for returns that same handle, whatever was
\* called in between, and the loading chain runs at most once per name.
C7_SameHandleBetweenReloads ==
  /\ \A n \in AllNames : runs[n] <= 1
  /\ (IsGet /\ pinned.name = last.arg) =>
       (~last.raised /\ last.handle.id = pinned.id)

\* C7 witness: a name was asked for a second time.
C7_Witness ==
  IsGet /\ pinned.name = last.arg /\ pinned.again /\ last.arg \in Registered

\* C8: with concurrent callers asking for names, the loading chain has run
\* exactly once for a registered name when a caller reads the cache, and
\* callers that asked for the same name obtain the same outcome (the same
\* handle); the chain never runs twice.
C8_ConcurrentFirstRequest ==
  /\ \A n \in AllNames : runs[n] <= 1
  /\ \A c \in Callers :
       (cpc[c] # "idle" /\ creq[c] \in Registered) => runs[creq[c]] = 1
  /\ \A c, d \in Callers :
       (cpc[c] = "read" /\ cpc[d] = "read" /\ creq[c] = creq[d])
         => clocal[c] = clocal[d]
  /\ \A c, d \in Callers :
       (cpc[c] = "returned" /\ cpc[d] = "returned" /\ creq[c] = creq[d])
         => cres[c] = cres[d]

\* C8 witness: every caller asked for the same registered name and got a
\* handle.
C8_Witness ==
  \E n \in Registered :
    \A c \in Callers :
      cpc[c] = "returned" /\ creq[c] = n /\ ~cres[c].raised /\ cres[c].handle # NoModule

\* C9: when the function execute_walker selected raises, the call returns
\* (does not raise) exactly the error dict: status error, the exception's
\* description as message, the requested walker name.
C9_ExceptionBecomesErrorResult ==
  (IsExecute /\ last.called # << >> /\ last.did.raises) =>
    /\ ~last.raised
    /\ last.envelope =
         [ status |-> "error", message |-> last.did.exc.msg, walker_name |-> last.arg ]

\* C9 witness: a called function raised.
C9_Witness ==
  IsExecute /\ last.called # << >> /\ last.did.raises /\ last.did.exc.msg = <<"boom">>

\* C10: when the function execute_walker selected returns normally, the
\* call returns the success dict whose data is that return value, whose
\* walker_name is the requested name and whose function_called is the
\* function that was called.
C10_SuccessResult ==
  (IsExecute /\ last.called # << >> /\ ~last.did.raises) =>
    /\ ~last.raised
    /\ Len(last.called) = 1
    /\ last.envelope =
         [ status |-> "success", data |-> last.did.value,
           walker_name |-> last.arg, function_called |-> last.called[1] ]

\* C10 witness: a function other than the mapped one was called and
\* returned.
C10_Witness ==
  /\ IsExecute /\ last.called # << >> /\ ~last.did.raises
  /\ last.called[1] # DefaultFunction(last.arg)
  /\ last.envelope.status = "success"

\* C11 as stated: a hint that names an operation the handle exposes is the
\* operation execute_walker calls and reports.
C11_HintSelectsOperation ==
  ( /\ IsExecute
    /\ last.hint # "none"
    /\ last.arg \in DOMAIN modules
    /\ last.hint \in modules[last.arg].ops )
  => /\ last.called = <<last.hint>>
     /\ last.envelope.status = "success" => last.envelope.function_called = last.hint

\* C11 amended: execute_walker takes no hint.  Whenever the handle exposes
\* an operation one is called: the mapped default operation if the handle
\* exposes it, otherwise the first exposed operation in dir() order; a
\* success result reports that operation.
C11_DefaultThenFirstListed ==
  (IsExecute /\ last.arg \in DOMAIN modules /\ modules[last.arg].ops # {}) =>
    LET ops == modules[last.arg].ops
        d == DefaultFunction(last.arg)
    IN /\ Len(last.called) = 1
       /\ last.called[1] \in ops
       /\ d \in ops => last.called[1] = d
       /\ d \notin ops => \A g \in ops : RankOf(last.called[1]) <= RankOf(g)
       /\ last.envelope.status = "success"
            => last.envelope.function_called = last.called[1]

\* C11 witness: the caller had an exposed operation in mind and another one
\* was called.
C11_Witness ==
  /\ IsExecute
  /\ last.arg \in DOMAIN modules
  /\ last.hint \in modules[last.arg].ops
  /\ last.called # << >>
  /\ last.called[1] # last.hint

\* C12: when the handle exposes no public callable, execute_walker calls
\* nothing and returns the error dict instead of raising.
C12_NoOperationIsErrorResult ==
  (IsExecute /\ last.arg \in DOMAIN modules /\ modules[last.arg].ops = {}) =>
    /\ ~last.raised
    /\ last.called = << >>
    /\ last.envelope =
         [ status |-> "error", walker_name |-> last.arg,
           message |-> <<"No callable functions found in module '", last.arg, "'">> ]

\* C12 witness: execute_walker was called on a loaded handle with no
\* operation.
C12_Witness ==
  /\ IsExecute
  /\ last.arg \in DOMAIN modules
  /\ modules[last.arg].ops = {}
  /\ last.envelope.status = "error"

\* C13: an execute_walker call on a registered name goes through
\* resolving, selecting, invoking in that order (stopping where it fails),
\* calls at most one operation once, also when that operation fails, and
\* returns one result whose status is success or error.
C13_OnePassOneResult ==
  (IsExecute /\ last.arg \in Registered) =>
    /\ Len(last.phases) \in 1..3
    /\ \A i \in 1..Len(last.phases) :
         last.phases[i] = <<"resolving", "selecting", "invoking">>[i]
    /\ Len(last.called) <= 1
    /\ Len(last.called) = 1 <=> Len(last.phases) = 3
    /\ ~last.raised
    /\ last.envelope.status \in {"success", "error"}
    /\ last.envelope.status = "success" => Len(last.phases) = 3

\* C13 witness: the called operation failed and was not called again.
C13_Witness ==
  /\ IsExecute /\ last.arg \in Registered
  /\ last.did.raises
  /\ Len(last.called) = 1
  /\ last.envelope.status = "error"

IsReload == last.op = "reload_walkers"
IsListing == last.op = "get_available_walkers"
IsStub(n) == n \in DOMAIN modules /\ modules[n].kind = "stub"

\* C14: reload_walkers re-resolves every registered name, and a failure
\* while reloading one name (last.arg) does not keep the other names from
\* being reloaded.
C14_ReloadReachesEveryName ==
  IsReload => \A n \in Registered \ {last.arg} : n \in last.listing

\* C15: a name that was a fallback stub and whose real implementation
\* became available before reload_walkers was called is no longer a stub
\* after the reload.
C15_ReloadReplacesStub ==
  IsReload => \A n \in last.seen : ~IsStub(n)

\* C16: a name resolved to a fallback stub keeps that same stub handle over
\* every step that is not a reload_walkers call, also when its real
\* implementation has become available, and get_walker_module returns
\* that stub.
C16_StubKeptUntilReload ==
  [][ \A n \in DOMAIN modules :
        ( /\ modules[n].kind = "stub"
          /\ ~(last'.op = "reload_walkers" /\ (last' # last \/ pinned' # pinned)) )
        => /\ n \in DOMAIN modules'
           /\ modules'[n] = modules[n]
           /\ (last' # last /\ last'.op = "get_walker_module" /\ last'.arg = n)
                => (~last'.raised /\ last'.handle = modules[n]) ]_vars

\* C16 witness: get_walker_module returned the stub after the real
\* implementation had become available.
C16_Witness ==
  IsGet /\ last.arg \in last.seen /\ last.handle.kind = "stub"

\* C17: the per-name report (get_available_walkers) has an entry for every
\* registered name, and the entry is true exactly when a handle is cached
\* for the name.  An entry of the listing is always {'loaded': True}.
C17_EntryPerRegisteredName ==
  IsListing =>
    \A n \in Registered :
      /\ n \in last.listing
      /\ TRUE <=> n \in DOMAIN modules

\* C18: a name resolved to a fallback stub is listed by
\* get_available_walkers like every other loaded name (the listing is
\* exactly the cached names, whatever made the handle), and health_check
\* counts it as loaded.
C18_StubReportedHealthy ==
  /\ IsListing => last.listing = DOMAIN modules
  /\ (last.op = "health_check" /\ \E n \in Registered : IsStub(n)) => last.flag

\* C18 witness: the listing contains a stubbed name.
C18_Witness ==
  IsListing /\ \E n \in last.listing : IsStub(n)

\* C19: an operation of a fallback stub, called with parameters p, returns
\* a result that names the stub's own capability and the operation that
\* was called and echoes p.
C19_StubResultNamesItself ==
  (IsExecute /\ IsStub(last.arg) /\ last.called # << >>) =>
    /\ last.did.value.walker = last.arg
    /\ last.did.value.method = last.called[1]
    /\ last.did.value.parameters = NormalizeParameters(last.params).kw

\* C20: execute_walker on a name resolved to a fallback stub returns status
\* success; its data carries the fallback marker and echoes the keyword
\* arguments of the call (none when parameters is None).
C20_StubInvokeSucceeds ==
  (IsExecute /\ IsStub(last.arg)) =>
    /\ ~last.raised
    /\ last.envelope.status = "success"
    /\ last.envelope.data.status = "fallback"
    /\ last.envelope.data.message[3] = " is running in fallback mode"
    /\ last.envelope.data.parameters =
         (IF last.params.none THEN {} ELSE last.params.kw)

\* C20 witness: a stub was invoked with the parameters {x: 1}.
C20_Witness ==
  /\ IsExecute /\ IsStub(last.arg)
  /\ last.params.kw = {<<"x", 1>>}
  /\ last.envelope.status = "success"

NotLoadedError(n) ==
  [ status |-> "error", walker_name |-> n,
    message |-> <<"Walker module '", n, "' is not loaded.">> ]

C22_CacheWithinRegistry ==
  /\ DOMAIN modules \subseteq Registered
  /\ walker_map = WalkerOrder
  /\ Cardinality(Registered) = 6

\* C22 witness: execute_walker was called with an unregistered name on a
\* manager with all six names loaded.
C22_Witness ==
  /\ IsExecute /\ last.arg \in UnregisteredNames
  /\ last.arg \notin DOMAIN modules
  /\ Cardinality(DOMAIN modules) = 6

\* execute_walker had to take the first available function: the handle
\* exposes functions, the mapped default function is not one of them.
TookFirstAvailable ==
  /\ IsExecute
  /\ last.arg \in DOMAIN modules
  /\ modules[last.arg].ops # {}
  /\ DefaultFunction(last.arg) \notin modules[last.arg].ops

\* C23 as stated: the first available function is the first in the order
\* in which the functions were discovered (defined and set on the handle)
\* when the name was resolved.
C23_FirstInDiscoveryOrder ==
  TookFirstAvailable =>
    /\ Len(last.called) = 1
    /\ \A g \in modules[last.arg].ops : PositionOf(last.called[1]) <= PositionOf(g)

\* C23 amended: the first available function is the first exposed name in
\* the sorted order of dir(module), computed at the call; it depends on the
\* handle only, so every call on the same handle takes the same function.
C23_FirstInSortedOrder ==
  TookFirstAvailable =>
    /\ Len(last.called) = 1
    /\ last.called[1] \in modules[last.arg].ops
    /\ \A g \in modules[last.arg].ops : RankOf(last.called[1]) <= RankOf(g)
    /\ \A g \in modules[last.arg].ops :
         RankOf(g) <= RankOf(last.called[1]) => g = last.called[1]

\* C23 witness: on a handle made from source the function taken is not the
\* one defined first.
C23_Witness ==
  /\ TookFirstAvailable
  /\ modules[last.arg].kind = "source"
  /\ \E g \in modules[last.arg].ops : PositionOf(g) < PositionOf(last.called[1])

\* The namespace exec() filled for name n, when strategy 3 made its handle.
SourceNamespace(n) == attempts[n][3].ns
FromSource(n) ==
  /\ n \in DOMAIN modules
  /\ modules[n].kind = "source"
  /\ Len(attempts[n]) = 3

\* C24 as stated: a handle made by strategy 3 exposes every callable of the
\* executed source's namespace under its own name, and nothing else.
C24_ExposesEveryCallable ==
  \A n \in Registered :
    FromSource(n) =>
      modules[n].ops = { e.key : e \in { x \in SourceNamespace(n) : x.callable } }

\* C24 amended: a handle made by strategy 3 exposes the callables of the
\* namespace whose names do not start with an underscore, each under its
\* own name, and nothing else.
C24_ExposesPublicCallables ==
  \A n \in Registered :
    FromSource(n) =>
      /\ \A e \in SourceNamespace(n) :
           (e.callable /\ ~StartsWithUnderscore(e.key)) => e.key \in modules[n].ops
      /\ \A o \in modules[n].ops :
           \E e \in SourceNamespace(n) :
             e.key = o /\ e.callable /\ ~StartsWithUnderscore(o)

\* C24 witness: the namespace held a callable with a leading underscore and
\* a value that is not callable, next to a public callable.
C24_Witness ==
  \E n \in Registered :
    /\ FromSource(n)
    /\ modules[n].ops # {}
    /\ \E e \in SourceNamespace(n) : e.callable /\ StartsWithUnderscore(e.key)
    /\ \E e \in SourceNamespace(n) : ~e.callable /\ ~StartsWithUnderscore(e.key)

\* C25: whenever strategy 3 failed for a name (file missing, or reading or
\* executing the source raised), strategy 4 runs next and caches a stub for
\* the name that exposes exactly the names walker_methods gives it;
\* strategy 4 does not fail.
C25_Strategy3FailureGivesStub ==
  \A n \in Registered :
    (Len(attempts[n]) >= 3 /\ attempts[n][3].result # "ok") =>
      IF Len(attempts[n]) = 3
      THEN pc = "s4" /\ name = n
      ELSE /\ attempts[n][4].strategy = 4
           /\ attempts[n][4].result = "ok"
           /\ n \in DOMAIN modules
           /\ modules[n].kind = "stub"
           /\ modules[n].ops = {walker_methods(n)[i] : i \in 1..Len(walker_methods(n))}

\* C25 witness: executing the source raised for one name, the file was
\* missing for another, and both have their stub.
C25_Witness ==
  /\ pc = "done"
  /\ \E n, m \in Registered :
       /\ Len(attempts[n]) = 4 /\ attempts[n][3].result = "Exception" /\ IsStub(n)
       /\ Len(attempts[m]) = 4 /\ attempts[m][3].result = "ImportError" /\ IsStub(m)

ReachedStrategy2(n) == Len(attempts[n]) >= 2

\* C30: over a whole run of the constructor the walkers directory is
\* inserted into sys.path at most once, however many names reach strategy
\* 2, and from the first time a name reaches strategy 2 it is in sys.path,
\* also when strategy 2 fails.
C30_PathInsertedOnce ==
  /\ path_inserts <= 1
  /\ sys_path <=> path_inserts = 1
  /\ sys_path <=> \E n \in Registered : ReachedStrategy2(n)

\* C30 witness: two names reached strategy 2, strategy 2 failed for both,
\* and the directory was inserted once.
C30_Witness ==
  /\ pc = "done"
  /\ path_inserts = 1
  /\ \E n, m \in Registered :
       /\ n # m
       /\ ReachedStrategy2(n) /\ attempts[n][2].result # "ok"
       /\ ReachedStrategy2(m) /\ attempts[m][2].result # "ok"

\* C26: an execute_walker call, for any name and parameters, whether it
\* returns success or error, leaves the cache as it was: the same names,
\* the same handle for each name, the same functions on each handle.
C26_ExecuteLeavesCache ==
  [][ (last' # last /\ last'.op = "execute_walker") =>
        /\ DOMAIN modules' = DOMAIN modules
        /\ \A n \in DOMAIN modules :
             /\ modules'[n].id = modules[n].id
             /\ modules'[n].kind = modules[n].kind
             /\ modules'[n].ops = modules[n].ops ]_vars

\* C26 witness: execute_walker succeeded on a handle made from source.
C26_Witness ==
  /\ IsExecute
  /\ last.arg \in DOMAIN modules
  /\ modules[last.arg].kind = "source"
  /\ last.envelope.status = "success"

\* C27: for each registered name the default function of function_mapping
\* is one of the names fallback_methods gives the name's stub; so
\* execute_walker on a stubbed registered name calls the default function
\* and succeeds.
C27_DefaultIsStubOperation ==
  /\ \A n \in Registered :
       /\ n \in DOMAIN function_mapping
       /\ n \in DOMAIN fallback_methods
       /\ \E i \in 1..Len(fallback_methods[n]) : fallback_methods[n][i] = function_mapping[n]
  /\ (IsExecute /\ last.arg \in Registered /\ IsStub(last.arg)) =>
       /\ last.called = <<function_mapping[last.arg]>>
       /\ last.envelope.status = "success"
       /\ last.envelope.function_called = function_mapping[last.arg]

\* C27 witness: execute_walker on a stubbed name called the default
\* function.
C27_Witness ==
  /\ IsExecute /\ last.arg \in Registered /\ IsStub(last.arg)
  /\ last.called = <<DefaultFunction(last.arg)>>

\* C28: a reload_walkers call does not raise and leaves the cache as it
\* was.  It reloads the cached handles in order up to the first one whose
\* reload fails and no handle after it; it returns True exactly when no
\* reload failed.
C28_ReloadFrameAndResult ==
  [][ (last'.op = "reload_walkers" /\ (last' # last \/ pinned' # pinned)) =>
        LET items == ModuleItems(modules, walker_map)
            fails(n) == ~IsRealModule(modules[n]) \/ n = last'.arg
        IN /\ ~last'.raised
           /\ modules' = modules
           /\ last'.flag <=> \A n \in DOMAIN modules : ~fails(n)
           /\ last'.listing =
                { items[k] : k \in { i \in 1..Len(items) :
                                       \A j \in 1..i : ~fails(items[j]) } } ]_vars

\* C28 witness: a reload failed after some handle was reloaded, and a
\* module after the failing one was not reloaded.
C28_Witness ==
  /\ IsReload /\ ~last.flag
  /\ last.listing # {}
  /\ \E n \in DOMAIN modules \ last.listing :
       n # last.arg /\ IsRealModule(modules[n])

IsHealthCheck == last.op = "health_check"
IsReady == last.op = "ready"

\* C29: health_check returns True exactly when at least one name has a
\* cache entry, so also when some registered names are not loaded; it
\* leaves the cache and the registry as they were; and no exception leaves
\* the ready() hook that calls it.
C29_HealthCheckResult ==
  [][ (last' # last /\ last'.op \in {"health_check", "ready"}) =>
        /\ modules' = modules
        /\ walker_map' = walker_map
        /\ ~last'.raised
        /\ last'.op = "health_check" => (last'.flag <=> DOMAIN modules # {}) ]_vars

\* C29 witness: health_check returned True while a registered name was not
\* loaded.
C29_Witness ==
  /\ IsHealthCheck /\ last.flag
  /\ \E n \in Registered : n \notin DOMAIN modules

=============================================================================
